---- MODULE Spec2Model ----
(***************************************************************************)
(* Model of src/main.go: a command-line agent that answers an inquiry by   *)
(* a chat session with function calling.  main -> query -> converse, and   *)
(* converse calls chat (the model backend) and invokeFunction (the tool    *)
(* dispatcher, which calls geocode or weather), then recurses.             *)
(*                                                                         *)
(* Go values are represented as follows.                                   *)
(*   string          a TLA+ string                                         *)
(*   error           a TLA+ string, Nil for the nil error                  *)
(*   []byte          a record [isNil, data]: a nil slice or its bytes      *)
(*   *FunctionCall   a set with no element (nil) or one element            *)
(*   JSON text       a record [kind, fields]: what the text parses to      *)
(*   map[string]interface{}   a function from keys to [type, val]          *)
(***************************************************************************)
EXTENDS Integers, Sequences, FiniteSets, TLC

VARIABLES
    pc,         \* position of the single thread of control
    entry,      \* "main": the process was started; "converse": converse was called directly
    osArgs,     \* os.Args[1:]
    stack,      \* the converse frames, the running one last: messages, and the
                \* locals resp, err of chat(...) and resp, err of invokeFunction(...)
    handlerRet, \* invokeFunction: what geocode or weather returned
    ret,        \* what converse returned
    calls,      \* every call made so far, in order
    fault,      \* the run-time panic that stopped the process, "" when none
    exitCode,   \* the exit status of the process, -1 while it runs
    stdout      \* what main printed

vars == <<pc, entry, osArgs, stack, handlerRet, ret, calls, fault, exitCode, stdout>>

Nil == "<nil>"

(***************************************************************************)
(* Bounds and program constants                                            *)
(***************************************************************************)

\* converse: len(messages) > 13
DepthLimit == 13

\* main: len(inquiry) < 2
MinInquiryLen == 2

\* a transcript handed directly to converse has at most DepthLimit + MaxOver entries
MaxOver == 2

(***************************************************************************)
(* Messages                                                                *)
(***************************************************************************)

NoFunctionCall == {}

Message(role, content, name, functionCall) ==
    [Role |-> role, Content |-> content, Name |-> name, FunctionCall |-> functionCall]

SystemMessage(content) == Message("system", content, "", NoFunctionCall)

UserMessage(content) == Message("user", content, "", NoFunctionCall)

\* the message of a choice that answers
AnswerMessage(content) == Message("assistant", content, "", NoFunctionCall)

\* the message of a choice that asks for a function call
CallMessage(name, arguments) ==
    Message("assistant", "", "", {[Name |-> name, Arguments |-> arguments]})

\* op.ChatMessageRoleFunction
ChatMessageRoleFunction == "function"

\* the function call a message carries (message.FunctionCall != nil)
FunctionCallOf(message) == CHOOSE fc \in message.FunctionCall : TRUE

(***************************************************************************)
(* Byte slices                                                             *)
(***************************************************************************)

NilBytes == [isNil |-> TRUE, data |-> ""]

Bytes(text) == [isNil |-> FALSE, data |-> text]

\* a nil slice printed as a value, not converted
BytesToString_printed(b) == IF b.isNil THEN "[]" ELSE b.data

\* string(resp): the bytes of the slice; a nil slice has none
BytesToString(b) == IF b.isNil THEN "" ELSE b.data

(***************************************************************************)
(* JSON payloads and json.Unmarshal into map[string]interface{}            *)
(***************************************************************************)

JSONString(v) == [type |-> "string", val |-> v]

JSONNumber(v) == [type |-> "float64", val |-> v]

EmptyMap == [k \in {} |-> JSONString("")]

\* text that is no JSON, for instance  {"location":
Malformed == [kind |-> "malformed", fields |-> EmptyMap]

\* JSON that is no object, for instance  ["Paris"]
NotObject == [kind |-> "array", fields |-> EmptyMap]

\* {"location":"Paris"}
LocStr == [kind |-> "object", fields |-> [k \in {"location"} |-> JSONString("Paris")]]

\* {"latitude":48.85,"longitude":2.35}
LatLonNum ==
    [kind |-> "object",
     fields |-> [k \in {"latitude", "longitude"} |->
                    IF k = "latitude" THEN JSONNumber("48.85") ELSE JSONNumber("2.35")]]

\* {"latitude":"48.85","longitude":"2.35"}
LatLonStr ==
    [kind |-> "object",
     fields |-> [k \in {"latitude", "longitude"} |->
                    IF k = "latitude" THEN JSONString("48.85") ELSE JSONString("2.35")]]

\* null
NullJSON == [kind |-> "null", fields |-> EmptyMap]

Payloads == {Malformed, NotObject, NullJSON, LocStr, LatLonNum, LatLonStr}

\* json.Unmarshal([]byte(argsIn), &args) with args an empty map
Unmarshal(argsIn) ==
    CASE argsIn.kind = "malformed" ->
            [args |-> EmptyMap, err |-> "invalid character"]
      [] argsIn.kind = "object" ->
            [args |-> argsIn.fields, err |-> Nil]
      [] argsIn.kind = "null" ->
            [args |-> EmptyMap, err |-> Nil]
      [] OTHER ->
            [args |-> EmptyMap, err |-> "json: cannot unmarshal into Go value of type map[string]interface {}"]

\* args[key].(string) does not panic: the key is there and holds a string
IsString(args, key) == key \in DOMAIN args /\ args[key].type = "string"

(***************************************************************************)
(* The model backend and the two lookups: what they may return             *)
(***************************************************************************)

RegisteredNames == {"geocode", "weather"}

\* a name the model may ask for that invokeFunction has no case for
UnregisteredNames == {"translate"}

\* the function calls the backend may ask for
Requests ==
    (RegisteredNames \X Payloads)
    \cup (UnregisteredNames \X {Malformed, NotObject, LocStr, LatLonNum})

Answers == {"It is sunny in Paris."}

\* the top choice of a response: an answer or a function call
TopChoices ==
    {AnswerMessage(a) : a \in Answers} \cup {CallMessage(rq[1], rq[2]) : rq \in Requests}

\* resp.Choices of a successful response: none, one, or more than one
ChoiceLists ==
    {<<>>}
    \cup {<<m>> : m \in TopChoices}
    \cup {<<AnswerMessage(a), CallMessage("geocode", LocStr)>> : a \in Answers}
    \cup {<<CallMessage("weather", LatLonNum), AnswerMessage(a)>> : a \in Answers}

ZeroResp == [Choices |-> <<>>, err |-> Nil]

\* client.CreateChatCompletion: a response, or an error with the zero response
ChatOutcomes ==
    {[Choices |-> c, err |-> Nil] : c \in ChoiceLists}
    \cup {[ZeroResp EXCEPT !.err = "status code: 401"]}

ZeroRet == [bytes |-> NilBytes, err |-> Nil]

\* http.Get fails; or ioutil.ReadAll returns the body, whatever the status;
\* or ioutil.ReadAll fails, with the bytes read so far
HandlerOutcomes(body) ==
    {[bytes |-> NilBytes, err |-> "dial tcp: connection refused"],
     [bytes |-> Bytes(body), err |-> Nil],
     [bytes |-> Bytes(""), err |-> "unexpected EOF"]}

GeocodeOutcomes == HandlerOutcomes("{\"results\":[{\"latitude\":48.85,\"longitude\":2.35}]}")

WeatherOutcomes == HandlerOutcomes("{\"cod\":\"400\",\"message\":\"wrong latitude\"}")

(***************************************************************************)
(* converse, query and main: the pieces                                    *)
(***************************************************************************)

Frame(messages) == [messages |-> messages, resp |-> ZeroResp, invoke |-> ZeroRet]

\* the running converse frame
Top == stack[Len(stack)]

\* the depth check that refuses 13 messages too
TooDeep_early(messages) == Len(messages) >= DepthLimit

\* the depth check two entries too late
TooDeep_late(messages) == Len(messages) > DepthLimit + 2

\* if len(messages) > 13
TooDeep(messages) == Len(messages) > DepthLimit

\* the error of chat ignored
ChatFailed_ignored(r) == FALSE

\* if err != nil, after chat(messages)
ChatFailed(r) == r.err # Nil

\* the last choice taken instead of the first
TopChoice_last(r) == r.Choices[Len(r.Choices)]

\* message := resp.Choices[0].Message
TopChoice(r) == r.Choices[1]

\* if functionCall := message.FunctionCall; functionCall != nil
HasFunctionCall(message) == message.FunctionCall # NoFunctionCall

\* return message.Content, nil
AnswerOf(message) == [answer |-> message.Content, err |-> Nil]

\* the error of invokeFunction ignored
InvokeFailed_ignored(r) == FALSE

\* if err != nil, after invokeFunction(...)
InvokeFailed(r) == r.err # Nil

\* the function message appended before the assistant's message
NewMessages_swapped(messages, message, r) ==
    (messages
     \o <<Message(ChatMessageRoleFunction, BytesToString(r.bytes),
                  FunctionCallOf(message).Name, NoFunctionCall)>>)
    \o <<message>>

\* the function message without the result of the call
NewMessages_noContent(messages, message, r) ==
    (messages \o <<message>>)
    \o <<Message(ChatMessageRoleFunction, "", FunctionCallOf(message).Name, NoFunctionCall)>>

\* the transcript of the recursive call
NewMessages(messages, message, r) ==
    (messages \o <<message>>)
    \o <<Message(ChatMessageRoleFunction, BytesToString(r.bytes),
                 FunctionCallOf(message).Name, NoFunctionCall)>>

\* the seed without its second system message
Query_oneSystem(inquiry) ==
    <<SystemMessage("Only use the functions you have been provided with."),
      UserMessage(inquiry)>>

\* the transcript query hands to converse
Query(inquiry) ==
    <<SystemMessage("Only use the functions you have been provided with."),
      SystemMessage("Only answer in 50 words or less."),
      UserMessage(inquiry)>>

\* strings.Join(elems, sep)
RECURSIVE Join(_, _)
Join(elems, sep) ==
    IF Len(elems) = 0 THEN ""
    ELSE IF Len(elems) = 1 THEN elems[1]
    ELSE (elems[1] \o sep) \o Join(Tail(elems), sep)

\* the inquiry main builds from os.Args
Inquiry(args) == IF Len(args) > 0 THEN Join(args, " ") ELSE ""

\* an inquiry of one character let through
TooShort_onlyEmpty(inquiry) == Len(inquiry) < MinInquiryLen - 1

\* if len(inquiry) < 2
TooShort(inquiry) == Len(inquiry) < MinInquiryLen

(***************************************************************************)
(* Initial states                                                          *)
(***************************************************************************)

\* the argument lists the process is started with
ArgLists == {<<>>, <<"w">>, <<"hi">>, <<"", "">>}

\* transcripts handed to converse directly, around the depth limit
DirectTranscripts ==
    {[i \in 1..n |-> UserMessage("hi")] : n \in (DepthLimit - 1)..(DepthLimit + MaxOver)}

InitCommon ==
    /\ handlerRet = ZeroRet
    /\ ret = [answer |-> "", err |-> Nil]
    /\ calls = <<>>
    /\ fault = ""
    /\ exitCode = -1
    /\ stdout = <<>>

InitMain ==
    /\ entry = "main"
    /\ pc = "main"
    /\ osArgs \in ArgLists
    /\ stack = <<>>

InitConverse ==
    /\ entry = "converse"
    /\ pc = "converse"
    /\ osArgs = <<>>
    /\ \E m \in DirectTranscripts : stack = <<Frame(m)>>

Init == InitCommon /\ (InitMain \/ InitConverse)

(***************************************************************************)
(* Actions                                                                 *)
(***************************************************************************)

ChatCall(messages) == [fn |-> "chat", messages |-> messages]

InvokeCall(name, argsIn) == [fn |-> "invokeFunction", name |-> name, argsIn |-> argsIn]

GeocodeCall(location) == [fn |-> "geocode", location |-> location]

\* weather called with its two arguments exchanged
WeatherCall_exchanged(lat, lon) == [fn |-> "weather", lat |-> lon, lon |-> lat]

WeatherCall(lat, lon) == [fn |-> "weather", lat |-> lat, lon |-> lon]

\* main up to the call of query, and query up to the call of converse
Main ==
    /\ pc = "main"
    /\ IF TooShort(Inquiry(osArgs))
       THEN /\ pc' = "exit"
            /\ exitCode' = 1
            /\ stack' = stack
       ELSE /\ pc' = "converse"
            /\ exitCode' = exitCode
            /\ stack' = <<Frame(Query(Inquiry(osArgs)))>>
    /\ UNCHANGED <<entry, osArgs, handlerRet, ret, calls, fault, stdout>>

\* converse: the depth check, then the call of chat
ConverseEnter ==
    /\ pc = "converse"
    /\ IF TooDeep(Top.messages)
       THEN /\ pc' = "return"
            /\ ret' = [answer |-> "", err |-> "too in-depth conversation"]
            /\ calls' = calls
       ELSE /\ pc' = "chat"
            /\ ret' = ret
            /\ calls' = Append(calls, ChatCall(Top.messages))
    /\ UNCHANGED <<entry, osArgs, stack, handlerRet, fault, exitCode, stdout>>

\* what converse does with a response r of chat
AfterChat(r) ==
    IF ChatFailed(r)
    THEN [pc |-> "return", ret |-> [answer |-> "", err |-> "failed chat: " \o r.err],
          fault |-> "", calls |-> <<>>]
    ELSE IF Len(r.Choices) = 0
    THEN [pc |-> "panic", ret |-> ret, fault |-> "index out of range [0] with length 0",
          calls |-> <<>>]
    ELSE IF HasFunctionCall(TopChoice(r))
    THEN [pc |-> "invokeFunction", ret |-> ret, fault |-> "",
          calls |-> <<InvokeCall(FunctionCallOf(TopChoice(r)).Name,
                                 FunctionCallOf(TopChoice(r)).Arguments)>>]
    ELSE [pc |-> "return", ret |-> AnswerOf(TopChoice(r)), fault |-> "", calls |-> <<>>]

\* chat returns, and converse goes on to its return or to the call of invokeFunction
ChatReturn ==
    /\ pc = "chat"
    /\ \E r \in ChatOutcomes :
          /\ stack' = [stack EXCEPT ![Len(stack)].resp = r]
          /\ pc' = AfterChat(r).pc
          /\ ret' = AfterChat(r).ret
          /\ fault' = AfterChat(r).fault
          /\ calls' = calls \o AfterChat(r).calls
    /\ UNCHANGED <<entry, osArgs, handlerRet, exitCode, stdout>>

\* an unknown name reported as an error
UnknownTool_error == [bytes |-> NilBytes, err |-> "unknown function"]

\* return nil, nil: the switch has no case for the name
UnknownTool == ZeroRet

\* the switch on the name taken before the error of json.Unmarshal is looked at
Dispatch_switchFirst(name, argsIn) ==
    LET dec == Unmarshal(argsIn) IN
    IF name = "geocode"
    THEN IF IsString(dec.args, "location")
         THEN [pc |-> "geocode", invoke |-> ZeroRet, fault |-> "",
               calls |-> <<[fn |-> "geocode", location |-> dec.args["location"].val]>>]
         ELSE [pc |-> "panic", invoke |-> ZeroRet,
               fault |-> "interface conversion: interface {} is not string", calls |-> <<>>]
    ELSE IF name = "weather"
    THEN IF IsString(dec.args, "latitude") /\ IsString(dec.args, "longitude")
         THEN [pc |-> "weather", invoke |-> ZeroRet, fault |-> "",
               calls |-> <<[fn |-> "weather", lat |-> dec.args["latitude"].val,
                            lon |-> dec.args["longitude"].val]>>]
         ELSE [pc |-> "panic", invoke |-> ZeroRet,
               fault |-> "interface conversion: interface {} is not string", calls |-> <<>>]
    ELSE [pc |-> "invoked", invoke |-> UnknownTool, fault |-> "", calls |-> <<>>]

\* what invokeFunction does with its arguments, up to the call of a lookup
Dispatch(name, argsIn) ==
    LET dec == Unmarshal(argsIn) IN
    IF dec.err # Nil
    THEN [pc |-> "invoked", invoke |-> [bytes |-> NilBytes, err |-> dec.err],
          fault |-> "", calls |-> <<>>]
    ELSE IF name = "geocode"
    THEN IF IsString(dec.args, "location")
         THEN [pc |-> "geocode", invoke |-> ZeroRet, fault |-> "",
               calls |-> <<GeocodeCall(dec.args["location"].val)>>]
         ELSE [pc |-> "panic", invoke |-> ZeroRet,
               fault |-> "interface conversion: interface {} is not string", calls |-> <<>>]
    ELSE IF name = "weather"
    THEN IF IsString(dec.args, "latitude") /\ IsString(dec.args, "longitude")
         THEN [pc |-> "weather", invoke |-> ZeroRet, fault |-> "",
               calls |-> <<WeatherCall(dec.args["latitude"].val, dec.args["longitude"].val)>>]
         ELSE [pc |-> "panic", invoke |-> ZeroRet,
               fault |-> "interface conversion: interface {} is not string", calls |-> <<>>]
    ELSE [pc |-> "invoked", invoke |-> UnknownTool, fault |-> "", calls |-> <<>>]

\* invokeFunction: decode, then the switch on the name
InvokeFunction ==
    /\ pc = "invokeFunction"
    /\ LET fc == FunctionCallOf(TopChoice(Top.resp))
           d == Dispatch(fc.Name, fc.Arguments)
       IN /\ pc' = d.pc
          /\ stack' = [stack EXCEPT ![Len(stack)].invoke = d.invoke]
          /\ fault' = d.fault
          /\ calls' = calls \o d.calls
    /\ UNCHANGED <<entry, osArgs, handlerRet, ret, exitCode, stdout>>

\* geocode returns, and invokeFunction returns what it returned
Geocode ==
    /\ pc = "geocode"
    /\ \E o \in GeocodeOutcomes :
          /\ handlerRet' = o
          /\ stack' = [stack EXCEPT ![Len(stack)].invoke = o]
    /\ pc' = "invoked"
    /\ UNCHANGED <<entry, osArgs, ret, calls, fault, exitCode, stdout>>

\* weather returns, and invokeFunction returns what it returned
Weather ==
    /\ pc = "weather"
    /\ \E o \in WeatherOutcomes :
          /\ handlerRet' = o
          /\ stack' = [stack EXCEPT ![Len(stack)].invoke = o]
    /\ pc' = "invoked"
    /\ UNCHANGED <<entry, osArgs, ret, calls, fault, exitCode, stdout>>

\* the recursive call made on the caller's own transcript, extended in place
CallConverse_inPlace(frames, newMessages) ==
    [frames EXCEPT ![Len(frames)] = Frame(newMessages)]

\* return converse(newMessages): a frame of its own for the copy that was extended
CallConverse(frames, newMessages) == Append(frames, Frame(newMessages))

\* converse after invokeFunction: the error return, or the recursive call
Fold ==
    /\ pc = "invoked"
    /\ IF InvokeFailed(Top.invoke)
       THEN /\ pc' = "return"
            /\ ret' = [answer |-> "", err |-> "failed invoke function: " \o Top.invoke.err]
            /\ stack' = stack
       ELSE /\ pc' = "converse"
            /\ ret' = ret
            /\ stack' = CallConverse(stack,
                    NewMessages(Top.messages, TopChoice(Top.resp), Top.invoke))
    /\ UNCHANGED <<entry, osArgs, handlerRet, calls, fault, exitCode, stdout>>

\* main after query: log.Fatalf, or print the answer
MainReturn ==
    /\ pc = "return"
    /\ entry = "main"
    /\ pc' = "exit"
    /\ IF ret.err # Nil
       THEN /\ exitCode' = 1
            /\ stdout' = stdout
       ELSE /\ exitCode' = 0
            /\ stdout' = Append(stdout, ret.answer)
    /\ UNCHANGED <<entry, osArgs, stack, handlerRet, ret, calls, fault>>

\* an unrecovered panic ends the process
Crash ==
    /\ pc = "panic"
    /\ pc' = "exit"
    /\ exitCode' = 2
    /\ UNCHANGED <<entry, osArgs, stack, handlerRet, ret, calls, fault, stdout>>

Next ==
    \/ Main
    \/ ConverseEnter
    \/ ChatReturn
    \/ InvokeFunction
    \/ Geocode
    \/ Weather
    \/ Fold
    \/ MainReturn
    \/ Crash

Spec == Init /\ [][Next]_vars

\* every call returns and the thread of control goes on while it has a step to take
FairSpec == Spec /\ WF_vars(Next)

(***************************************************************************)
(* Vocabulary of the properties                                            *)
(***************************************************************************)

\* the calls made so far to the functions named in fns, in order
CallsOf(fns) == SelectSeq(calls, LAMBDA c : c.fn \in fns)

Lookups == {"geocode", "weather"}

\* the response r of chat asks for a function call
IsCall(r) ==
    r.err = Nil /\ Len(r.Choices) > 0 /\ r.Choices[1].FunctionCall # {}

\* the response r of chat is a terminal answer
IsAnswer(r) ==
    r.err = Nil /\ Len(r.Choices) > 0 /\ r.Choices[1].FunctionCall = {}

\* the function call the response r asks for
Requested(r) == CHOOSE fc \in r.Choices[1].FunctionCall : TRUE

\* the run has stopped by a return of converse
Returned == pc = "return" \/ (pc = "exit" /\ exitCode \in {0, 1} /\ Len(stack) > 0)

\* the calls made after the last call of chat
RECURSIVE SinceLastChat(_)
SinceLastChat(cs) ==
    IF Len(cs) = 0 \/ cs[Len(cs)].fn = "chat" THEN <<>>
    ELSE Append(SinceLastChat(SubSeq(cs, 1, Len(cs) - 1)), cs[Len(cs)])

(***************************************************************************)
(* C1: a converse frame entered with more than 13 messages returns the     *)
(* too-deep error at once: it calls neither chat nor invokeFunction, so    *)
(* the calls of chat and of invokeFunction are those of the frames below.  *)
(***************************************************************************)
C1_TooDeepNoCalls ==
    \A i \in 1..Len(stack) :
        Len(stack[i].messages) > 13 =>
            /\ i = Len(stack)
            /\ pc = "converse" \/ Returned
            /\ pc # "converse" =>
                  ret = [answer |-> "", err |-> "too in-depth conversation"]
            /\ stack[i].resp = ZeroResp /\ stack[i].invoke = ZeroRet
            /\ Len(CallsOf({"chat"})) = i - 1
            /\ Len(CallsOf({"invokeFunction"})) = i - 1
            /\ \A k \in 1..Len(calls) :
                  calls[k].fn = "chat" => calls[k].messages # stack[i].messages

\* converse was handed 14 messages and has returned; and a run of query has
\* returned from its frame of 15 messages
C1_Witness ==
    /\ Len(stack) > 0
    /\ Len(Top.messages) > 13
    /\ pc = "return"
    /\ ret.err = "too in-depth conversation"
    /\ \/ entry = "converse" /\ Len(stack) = 1 /\ Len(Top.messages) = 14
       \/ entry = "main" /\ Len(stack) = 7 /\ Len(Top.messages) = 15

(***************************************************************************)
(* C2: when chat succeeds and its first choice carries no function call,   *)
(* converse returns that choice's content and no error, and the call of    *)
(* chat that gave the response is the last call of the run.                *)
(***************************************************************************)
C2_TerminalAnswer ==
    \A i \in 1..Len(stack) :
        IsAnswer(stack[i].resp) =>
            /\ i = Len(stack)
            /\ Returned
            /\ ret = [answer |-> stack[i].resp.Choices[1].Content, err |-> Nil]
            /\ fault = ""
            /\ stack[i].invoke = ZeroRet
            /\ Len(calls) > 0
            /\ calls[Len(calls)] = [fn |-> "chat", messages |-> stack[i].messages]
            /\ Len(CallsOf({"chat"})) = i
            /\ Len(CallsOf({"invokeFunction"})) = i - 1

\* a response of two choices, the first an answer, the second a function call,
\* has been returned after one round trip, and converse has returned
C2_Witness ==
    /\ Len(stack) = 2
    /\ IsAnswer(Top.resp)
    /\ Len(Top.resp.Choices) = 2
    /\ pc = "return"
    /\ ret.answer = "It is sunny in Paris."

(***************************************************************************)
(* C3: every frame above the first has the transcript of the frame below   *)
(* it followed by exactly two messages: the first choice of the response   *)
(* as chat returned it, then a function message with the requested name    *)
(* and the bytes invokeFunction returned as its content.  And converse     *)
(* returns from a frame whose response asks for a call only when           *)
(* invokeFunction failed.                                                  *)
(***************************************************************************)
C3_FoldAppendsTwo ==
    /\ \A i \in 2..Len(stack) :
          /\ IsCall(stack[i - 1].resp)
          /\ stack[i - 1].invoke.err = Nil
          /\ Len(stack[i].messages) = Len(stack[i - 1].messages) + 2
          /\ SubSeq(stack[i].messages, 1, Len(stack[i - 1].messages)) = stack[i - 1].messages
          /\ stack[i].messages[Len(stack[i - 1].messages) + 1] = stack[i - 1].resp.Choices[1]
          /\ stack[i].messages[Len(stack[i - 1].messages) + 2] =
                [Role |-> "function",
                 Name |-> Requested(stack[i - 1].resp).Name,
                 Content |-> IF stack[i - 1].invoke.bytes.isNil THEN ""
                             ELSE stack[i - 1].invoke.bytes.data,
                 FunctionCall |-> {}]
    /\ (Len(stack) > 0 /\ Returned /\ IsCall(Top.resp)) => Top.invoke.err # Nil

\* geocode's body was folded in, then the empty result of an unregistered name
C3_Witness ==
    /\ Len(stack) = 3
    /\ pc = "converse"
    /\ stack[3].messages[5].Name = "geocode"
    /\ stack[3].messages[5].Content # ""
    /\ stack[3].messages[7].Name = "translate"
    /\ stack[3].messages[7].Content = ""

(***************************************************************************)
(* C4: in a run started by query, in every transcript sent to chat each    *)
(* function message comes right after an assistant message that asks for   *)
(* the function of the same name.                                          *)
(***************************************************************************)
C4_ResultFollowsRequest ==
    entry = "main" =>
        \A k \in 1..Len(calls) :
            calls[k].fn = "chat" =>
                \A j \in 1..Len(calls[k].messages) :
                    calls[k].messages[j].Role = "function" =>
                        /\ j > 1
                        /\ calls[k].messages[j - 1].Role = "assistant"
                        /\ calls[k].messages[j - 1].FunctionCall # {}
                        /\ \A fc \in calls[k].messages[j - 1].FunctionCall :
                              fc.Name = calls[k].messages[j].Name

\* a transcript of 13 messages was sent to chat, holding the results of a
\* registered and of an unregistered function
C4_Witness ==
    /\ entry = "main"
    /\ \E k \in 1..Len(calls) :
          /\ calls[k].fn = "chat"
          /\ Len(calls[k].messages) = 13
          /\ calls[k].messages[5].Role = "function"
          /\ calls[k].messages[5].Name = "translate"
          /\ calls[k].messages[13].Role = "function"
          /\ calls[k].messages[13].Name = "weather"

(***************************************************************************)
(* C5: when chat returns an error, converse returns an error and no        *)
(* answer; the failed call of chat is the last call of the run, so chat is *)
(* not called again and no function is invoked after it; if it was the     *)
(* first call of chat it is the only call of the run.                      *)
(***************************************************************************)
C5_ChatErrorAborts ==
    \A i \in 1..Len(stack) :
        stack[i].resp.err # Nil =>
            /\ i = Len(stack)
            /\ Returned
            /\ ret.err # Nil /\ ret.answer = ""
            /\ fault = ""
            /\ pc = "exit" => exitCode = 1 /\ stdout = <<>>
            /\ Len(calls) > 0
            /\ calls[Len(calls)] = [fn |-> "chat", messages |-> stack[i].messages]
            /\ Len(CallsOf({"chat"})) = i
            /\ Len(CallsOf({"invokeFunction"})) = i - 1
            /\ i = 1 => Len(calls) = 1

\* the first call of chat failed; and a call of chat failed after two round trips
C5_Witness ==
    /\ Len(stack) \in {1, 3}
    /\ Top.resp.err # Nil
    /\ ret.err = "failed chat: status code: 401"
    /\ pc = "exit"
    /\ entry = "main"

(***************************************************************************)
(* C6: when invokeFunction returns an error, converse returns an error and *)
(* no answer without another frame: after the call of chat that asked for  *)
(* the function there is the one call of invokeFunction and at most one    *)
(* call of a lookup, chat is not called again, and no transcript holding a *)
(* result for the request is sent.                                         *)
(***************************************************************************)
C6_InvokeErrorAborts ==
    \A i \in 1..Len(stack) :
        stack[i].invoke.err # Nil =>
            /\ i = Len(stack)
            /\ pc = "invoked" \/ Returned
            /\ pc # "invoked" => (ret.err # Nil /\ ret.answer = "")
            /\ fault = ""
            /\ pc = "exit" => exitCode = 1 /\ stdout = <<>>
            /\ Len(CallsOf({"chat"})) = i
            /\ Len(CallsOf({"invokeFunction"})) = i
            /\ Len(SinceLastChat(calls)) \in {1, 2}
            /\ SinceLastChat(calls)[1].fn = "invokeFunction"
            /\ Len(SinceLastChat(calls)) = 2 => SinceLastChat(calls)[2].fn \in Lookups
            /\ \A k \in 1..Len(calls) :
                  calls[k].fn = "chat" => Len(calls[k].messages) <= Len(stack[i].messages)

\* converse has returned after a payload that does not decode; and after a
\* lookup that failed
C6_Witness ==
    /\ pc = "return"
    /\ Len(stack) > 0
    /\ Top.invoke.err # Nil
    /\ \/ Len(SinceLastChat(calls)) = 1 /\ Requested(Top.resp).Arguments.kind = "malformed"
       \/ Len(SinceLastChat(calls)) = 2 /\ handlerRet.err # Nil /\ Len(stack) = 2

(***************************************************************************)
(* C7                                                                      *)
(***************************************************************************)

\* the frames whose response asks for a function invokeFunction has a case for
RegisteredFrames ==
    {j \in 1..Len(stack) :
        IsCall(stack[j].resp) /\ Requested(stack[j].resp).Name \in {"geocode", "weather"}}

\* invokeFunction has acted on the request of frame i, which names no
\* registered function
UnregisteredDispatched(i) ==
    /\ IsCall(stack[i].resp)
    /\ Requested(stack[i].resp).Name \notin {"geocode", "weather"}
    /\ i < Len(stack) \/ pc # "invokeFunction"

\* C7 as stated, in the runs of the program: for a request that names an
\* unregistered function, whatever its argument payload, invokeFunction
\* returns no bytes and no error, and calls no lookup.
C7_AnyPayload ==
    entry = "main" =>
        /\ \A i \in 1..Len(stack) :
              UnregisteredDispatched(i) => stack[i].invoke = [bytes |-> NilBytes, err |-> Nil]
        /\ Len(CallsOf(Lookups)) <= Cardinality(RegisteredFrames)

\* C7 amended: for a request that names an unregistered function,
\* invokeFunction returns no bytes and no error when the argument payload
\* decodes into a map, and no bytes and the decoding error when it does not;
\* in both cases it calls no lookup.
C7_DecodablePayload ==
    /\ \A i \in 1..Len(stack) :
          UnregisteredDispatched(i) =>
              IF Requested(stack[i].resp).Arguments.kind \in {"object", "null"}
              THEN stack[i].invoke = [bytes |-> NilBytes, err |-> Nil]
              ELSE stack[i].invoke.bytes = NilBytes /\ stack[i].invoke.err # Nil
    /\ Len(CallsOf(Lookups)) <= Cardinality(RegisteredFrames)

\* invokeFunction has returned for an unregistered name with a payload that
\* decodes, in a run that called no lookup
C7_Witness ==
    /\ pc = "invoked"
    /\ UnregisteredDispatched(Len(stack))
    /\ Requested(Top.resp).Arguments = LatLonNum
    /\ Top.invoke = ZeroRet
    /\ Len(stack) = 2
    /\ CallsOf(Lookups) = <<>>

(***************************************************************************)
(* C8: for a weather request whose latitude is a number, invokeFunction    *)
(* returns an error and no bytes without calling weather, and converse     *)
(* returns an error: nothing stops the process but that return; stated of  *)
(* the runs of the program.                                                *)
(***************************************************************************)
C8_TypeMismatchIsError ==
    (/\ entry = "main"
     /\ Len(stack) > 0
     /\ IsCall(Top.resp)
     /\ Requested(Top.resp).Name = "weather"
     /\ Requested(Top.resp).Arguments.kind = "object"
     /\ "latitude" \in DOMAIN Requested(Top.resp).Arguments.fields
     /\ Requested(Top.resp).Arguments.fields["latitude"].type = "float64"
     /\ pc # "invokeFunction")
    =>  /\ fault = ""
        /\ pc = "invoked" \/ Returned
        /\ Top.invoke.bytes = NilBytes /\ Top.invoke.err # Nil
        /\ Len(SinceLastChat(calls)) = 1
        /\ pc # "invoked" => (ret.err # Nil /\ ret.answer = "")
        /\ pc = "exit" => exitCode = 1

(***************************************************************************)
(* C9: for a request that names a registered function with arguments as    *)
(* its schema declares them (geocode: a string location; weather: numbers  *)
(* for latitude and longitude), invokeFunction calls that lookup once and  *)
(* returns the bytes and the error the lookup returned; stated of the runs *)
(* of the program.                                                         *)
(***************************************************************************)

\* the arguments of the function call fc are as the schema of its function declares
Conforming(fc) ==
    /\ fc.Arguments.kind = "object"
    /\ \/ /\ fc.Name = "geocode"
          /\ DOMAIN fc.Arguments.fields = {"location"}
          /\ fc.Arguments.fields["location"].type = "string"
       \/ /\ fc.Name = "weather"
          /\ DOMAIN fc.Arguments.fields = {"latitude", "longitude"}
          /\ fc.Arguments.fields["latitude"].type = "float64"
          /\ fc.Arguments.fields["longitude"].type = "float64"

C9_HandlerResultUnmodified ==
    (/\ entry = "main"
     /\ Len(stack) > 0
     /\ IsCall(Top.resp)
     /\ Conforming(Requested(Top.resp))
     /\ pc # "invokeFunction")
    =>  /\ fault = ""
        /\ Len(SinceLastChat(calls)) = 2
        /\ SinceLastChat(calls)[2].fn = Requested(Top.resp).Name
        /\ pc \notin Lookups => Top.invoke = handlerRet

(***************************************************************************)
(* C10: in a run of query where chat asks for geocode with a string        *)
(* location, geocode succeeds, chat asks for weather with numbers for      *)
(* latitude and longitude, weather succeeds and chat then answers, nothing *)
(* stops the process but the return of that answer, after three calls of   *)
(* chat and the two lookups, geocode then weather, from a transcript of 7  *)
(* messages.                                                               *)
(***************************************************************************)

\* the run follows scenario A as far as it has come: each response that chat
\* has returned, and each result of a lookup, is the one the scenario names
ScenarioA ==
    /\ entry = "main"
    /\ Len(stack) \in 2..3
    /\ IsCall(stack[1].resp)
    /\ Requested(stack[1].resp) = [Name |-> "geocode", Arguments |-> LocStr]
    /\ ~stack[1].invoke.bytes.isNil
    /\ stack[2].invoke.err = Nil
    /\ IF Len(stack) = 2
       THEN \/ pc \in {"converse", "chat"}
            \/ stack[2].resp = [Choices |-> <<CallMessage("weather", LatLonNum)>>, err |-> Nil]
       ELSE /\ stack[2].resp = [Choices |-> <<CallMessage("weather", LatLonNum)>>, err |-> Nil]
            /\ pc \in {"converse", "chat"} \/ IsAnswer(stack[3].resp)

C10_ScenarioA ==
    ScenarioA =>
        /\ fault = ""
        /\ pc = "exit" =>
              /\ exitCode = 0
              /\ Len(stack) = 3
              /\ Len(Top.messages) = 7
              /\ stdout = <<Top.resp.Choices[1].Content>>
              /\ Len(CallsOf({"chat"})) = 3
              /\ Len(CallsOf(Lookups)) = 2
              /\ CallsOf(Lookups)[1].fn = "geocode"
              /\ CallsOf(Lookups)[2].fn = "weather"

(***************************************************************************)
(* C11: a run that has stopped has stopped in a declared terminal state:   *)
(* converse has returned an answer and no error, or the too-deep error, or *)
(* the error of chat, or the error of invokeFunction; whatever chat        *)
(* returned (an error, or any number of choices, none included) and        *)
(* whatever function name and payload the response carried.                *)
(***************************************************************************)

\* converse has been entered and no step of the run is left to take
Stopped == Len(stack) > 0 /\ pc \in {"return", "panic", "exit"}

\* converse returned the answer of the response of its last frame, and no error
Done ==
    /\ Returned
    /\ fault = ""
    /\ ret.err = Nil
    /\ IsAnswer(Top.resp)
    /\ ret.answer = Top.resp.Choices[1].Content

\* converse returned one of the three kinds of error, and no answer
TerminalFailure ==
    /\ Returned
    /\ fault = ""
    /\ ret.answer = ""
    /\ \/ ret.err = "too in-depth conversation"
       \/ Top.resp.err # Nil /\ ret.err = "failed chat: " \o Top.resp.err
       \/ Top.invoke.err # Nil /\ ret.err = "failed invoke function: " \o Top.invoke.err

C11_DeclaredTerminalStates ==
    (entry = "main" /\ Stopped) => (Done \/ TerminalFailure)

(***************************************************************************)
(* C12: when every call returns, a run started by query comes to Done or   *)
(* to a terminal failure state, whatever chat answers.                     *)
(***************************************************************************)
C12_ReachesTerminalState ==
    (entry = "main" /\ pc = "converse") ~> (Done \/ TerminalFailure)

\* what does hold of C12: when every call returns, the process started with an
\* inquiry comes to its end, be it by a return of converse or by a panic
C12_ProcessExits ==
    (entry = "main" /\ pc = "converse") ~> (pc = "exit")

(***************************************************************************)
(* C13: started with an inquiry of fewer than 2 characters, no argument at *)
(* all included, the process exits with a failure before query is called:  *)
(* no converse frame, no call of chat, no call of a function, no output.   *)
(***************************************************************************)

\* the number of characters of the words of args
RECURSIVE WordChars(_)
WordChars(args) == IF Len(args) = 0 THEN 0 ELSE Len(args[1]) + WordChars(Tail(args))

\* the number of characters of the words of args joined by single spaces
InquiryLength(args) == IF Len(args) = 0 THEN 0 ELSE WordChars(args) + (Len(args) - 1)

C13_ShortInquiryRejected ==
    (entry = "main" /\ InquiryLength(osArgs) < 2 /\ pc # "main") =>
        /\ pc = "exit"
        /\ exitCode = 1
        /\ stack = <<>>
        /\ calls = <<>>
        /\ stdout = <<>>
        /\ fault = ""

\* the process started with the one-character inquiry "w" has exited
C13_Witness ==
    /\ entry = "main"
    /\ osArgs = <<"w">>
    /\ pc = "exit"
    /\ exitCode = 1
    /\ calls = <<>>

(***************************************************************************)
(* C15: in a run started by query the frames of converse have 3, 5, ...,   *)
(* 15 messages, two more per round trip; chat is called only with 3, 5, 7, *)
(* 9, 11 or 13 messages; so there are at most 6 calls of chat and at most  *)
(* 6 calls of invokeFunction, and of the lookups, in a run.                *)
(***************************************************************************)
C15_OddLengths ==
    entry = "main" =>
        /\ \A i \in 1..Len(stack) :
              /\ Len(stack[i].messages) = 3 + 2 * (i - 1)
              /\ Len(stack[i].messages) \in {3, 5, 7, 9, 11, 13, 15}
        /\ \A k \in 1..Len(calls) :
              calls[k].fn = "chat" => Len(calls[k].messages) \in {3, 5, 7, 9, 11, 13}
        /\ Len(CallsOf({"chat"})) <= 6
        /\ Len(CallsOf({"invokeFunction"})) <= 6
        /\ Len(CallsOf(Lookups)) <= 6

\* a transcript of exactly 13 messages was sent, in the sixth call of chat,
\* and the sixth lookup was called
C15_Witness ==
    /\ entry = "main"
    /\ Len(CallsOf({"chat"})) = 6
    /\ Len(CallsOf({"chat"})[6].messages) = 13
    /\ Len(CallsOf({"invokeFunction"})) = 6
    /\ Len(CallsOf(Lookups)) = 6

(***************************************************************************)
(* C16: the calls of a run come one after another and alternate.  The      *)
(* first call is a call of chat, and no two calls of chat are adjacent.    *)
(* A call of invokeFunction comes right after a call of chat whose         *)
(* response was a success asking for that name with those arguments, so    *)
(* each response has at most one.  A lookup is called right after the      *)
(* call of invokeFunction for its name, with the values of its arguments.  *)
(* The call in progress is the last call, so there is never more than one  *)
(* in progress.                                                            *)
(***************************************************************************)

\* how many of the first k calls are calls of chat
ChatsUpTo(k) == Len(SelectSeq(SubSeq(calls, 1, k), LAMBDA c : c.fn = "chat"))

C16_CallsAlternate ==
    /\ Len(calls) > 0 => calls[1].fn = "chat"
    /\ Len(CallsOf({"chat"})) \in {Len(stack), Len(stack) - 1}
    /\ Len(CallsOf({"invokeFunction"})) <= Len(CallsOf({"chat"}))
    /\ \A k \in 1..Len(calls) :
          /\ calls[k].fn = "chat" =>
                /\ k > 1 => calls[k - 1].fn # "chat"
                /\ calls[k].messages = stack[ChatsUpTo(k)].messages
          /\ calls[k].fn = "invokeFunction" =>
                /\ k > 1
                /\ calls[k - 1].fn = "chat"
                /\ IsCall(stack[ChatsUpTo(k)].resp)
                /\ Requested(stack[ChatsUpTo(k)].resp) =
                      [Name |-> calls[k].name, Arguments |-> calls[k].argsIn]
          /\ calls[k].fn \in Lookups =>
                /\ k > 1
                /\ calls[k - 1].fn = "invokeFunction"
                /\ calls[k - 1].name = calls[k].fn
                /\ calls[k - 1].argsIn.kind = "object"
                /\ calls[k].fn = "geocode" =>
                      calls[k].location = calls[k - 1].argsIn.fields["location"].val
                /\ calls[k].fn = "weather" =>
                      /\ calls[k].lat = calls[k - 1].argsIn.fields["latitude"].val
                      /\ calls[k].lon = calls[k - 1].argsIn.fields["longitude"].val
    /\ pc \in {"chat", "invokeFunction", "geocode", "weather"} =>
          (Len(calls) > 0 /\ calls[Len(calls)].fn = pc)
    /\ (pc = "invoked" /\ Len(SinceLastChat(calls)) = 1) =>
          calls[Len(calls)].fn = "invokeFunction"

\* chat, invokeFunction, geocode, then again chat, invokeFunction, weather,
\* and chat is being called for the third time
C16_Witness ==
    /\ Len(calls) = 7
    /\ calls[3].fn = "geocode"
    /\ calls[4].fn = "chat"
    /\ calls[5].fn = "invokeFunction"
    /\ calls[6].fn = "weather"
    /\ calls[7].fn = "chat"
    /\ pc = "chat"

(***************************************************************************)
(* C17: the transcript only grows by appending.  Of two calls of chat in a *)
(* run, the transcript of the earlier is a proper prefix of that of the    *)
(* later; in a run of query the first three messages of every transcript   *)
(* sent are the seed; and no step changes the messages a frame of converse *)
(* was called with, so the caller's transcript is as it was when the run   *)
(* returns, however it returns.                                            *)
(***************************************************************************)

\* a is a proper prefix of b
ProperPrefix(a, b) == Len(a) < Len(b) /\ SubSeq(b, 1, Len(a)) = a

\* the transcripts sent to chat, in order
Sent == CallsOf({"chat"})

C17_Prefixes ==
    /\ \A k \in 1..Len(Sent) : \A l \in 1..Len(Sent) :
          k < l => ProperPrefix(Sent[k].messages, Sent[l].messages)
    /\ entry = "main" =>
          \A k \in 1..Len(Sent) :
              /\ Len(Sent[k].messages) >= 3
              /\ Sent[k].messages[1] =
                    [Role |-> "system", Name |-> "", FunctionCall |-> {},
                     Content |-> "Only use the functions you have been provided with."]
              /\ Sent[k].messages[2] =
                    [Role |-> "system", Name |-> "", FunctionCall |-> {},
                     Content |-> "Only answer in 50 words or less."]
              /\ Sent[k].messages[3].Role = "user"
              /\ Sent[k].messages[3] = Sent[1].messages[3]

C17_FramesKept ==
    \A i \in 1..Len(stack) :
        /\ Len(stack') >= Len(stack)
        /\ stack'[i].messages = stack[i].messages

C17_AppendOnly == []C17_Prefixes /\ [][C17_FramesKept]_vars

\* converse has returned after three calls of chat, with the transcript of
\* its first frame still the three messages of the seed
C17_Witness ==
    /\ entry = "main"
    /\ pc = "return"
    /\ Len(Sent) = 3
    /\ Len(stack) = 3
    /\ Len(stack[1].messages) = 3
    /\ stack[1].messages = Sent[1].messages

(***************************************************************************)
(* C18: invokeFunction decodes before it looks at the name.  For a payload *)
(* that does not decode, whatever the name, registered or not, it returns  *)
(* no bytes and the decoding error, and no lookup is called.               *)
(***************************************************************************)

\* invokeFunction has acted on the request of frame i, whose payload does not decode
UndecodableDispatched(i) ==
    /\ IsCall(stack[i].resp)
    /\ Requested(stack[i].resp).Arguments.kind \notin {"object", "null"}
    /\ i < Len(stack) \/ pc # "invokeFunction"

C18_DecodeBeforeLookup ==
    \A i \in 1..Len(stack) :
        UndecodableDispatched(i) =>
            /\ i = Len(stack)
            /\ fault = ""
            /\ stack[i].invoke.bytes = [isNil |-> TRUE, data |-> ""]
            /\ stack[i].invoke.err # Nil
            /\ Len(SinceLastChat(calls)) = 1
            /\ SinceLastChat(calls)[1].fn = "invokeFunction"
            /\ Len(CallsOf(Lookups)) <= Cardinality(RegisteredFrames \ {i})

\* invokeFunction has returned the decoding error for a registered name, after
\* a round trip for an unregistered one
C18_Witness ==
    /\ pc = "invoked"
    /\ Len(stack) = 2
    /\ UndecodableDispatched(2)
    /\ Requested(Top.resp) = [Name |-> "weather", Arguments |-> Malformed]
    /\ Top.invoke.err = "invalid character"
    /\ Requested(stack[1].resp).Name = "translate"

(***************************************************************************)
(* C19: a request for an unregistered function whose payload decodes does  *)
(* not end the run.  converse goes on to a frame whose transcript has two  *)
(* more messages, the assistant's message and a function message with the  *)
(* requested name and empty content, and calls chat with it unless it is   *)
(* too deep.  A run in which every response of chat is such a request      *)
(* calls no lookup and stops only by the too-deep error.                   *)
(***************************************************************************)

\* invokeFunction has acted on the request of frame i, which names no
\* registered function and has a payload that decodes
UnregisteredDecodable(i) ==
    /\ UnregisteredDispatched(i)
    /\ Requested(stack[i].resp).Arguments.kind \in {"object", "null"}

\* every response chat has returned in the run asks for an unregistered
\* function with a payload that decodes
OnlyUnregistered ==
    /\ Len(stack) > 0
    /\ \A i \in 1..Len(stack) :
          \/ i = Len(stack) /\ pc \in {"converse", "chat"}
          \/ i = Len(stack) /\ Len(Sent) < Len(stack)
          \/ /\ IsCall(stack[i].resp)
             /\ Requested(stack[i].resp).Name \notin {"geocode", "weather"}
             /\ Requested(stack[i].resp).Arguments.kind \in {"object", "null"}

C19_UnregisteredGoesOn ==
    /\ \A i \in 1..Len(stack) :
          UnregisteredDecodable(i) =>
              /\ stack[i].invoke = [bytes |-> [isNil |-> TRUE, data |-> ""], err |-> Nil]
              /\ i = Len(stack) => (pc = "invoked" /\ fault = "")
              /\ i < Len(stack) =>
                    /\ Len(stack[i + 1].messages) = Len(stack[i].messages) + 2
                    /\ stack[i + 1].messages[Len(stack[i].messages) + 1] =
                          stack[i].resp.Choices[1]
                    /\ stack[i + 1].messages[Len(stack[i].messages) + 2] =
                          [Role |-> "function",
                           Name |-> Requested(stack[i].resp).Name,
                           Content |-> "",
                           FunctionCall |-> {}]
                    /\ (i + 1 < Len(stack) \/ pc # "converse") =>
                          \/ Len(stack[i + 1].messages) > 13
                          \/ \E k \in 1..Len(Sent) : Sent[k].messages = stack[i + 1].messages
    /\ OnlyUnregistered =>
          /\ CallsOf(Lookups) = <<>>
          /\ Stopped =>
                /\ Returned
                /\ ret = [answer |-> "", err |-> "too in-depth conversation"]
                /\ Len(Top.messages) > 13
                /\ entry = "main" => (Len(stack) = 7 /\ Len(Sent) = 6)

\* a run of query in which chat asked six times for an unregistered function
\* has returned the too-deep error
C19_Witness ==
    /\ entry = "main"
    /\ OnlyUnregistered
    /\ pc = "return"
    /\ Len(stack) = 7
    /\ Len(Sent) = 6
    /\ Top.messages[15].Name = "translate"
    /\ Top.messages[15].Content = ""
    /\ CallsOf(Lookups) = <<>>

(***************************************************************************)
(* C20: in a run started by query, converse returns the too-deep error     *)
(* only from its seventh frame, of 15 messages: after exactly 6 calls of   *)
(* chat that succeeded with a request and exactly 6 calls of               *)
(* invokeFunction that returned no error.  The function asked for at 13    *)
(* messages was invoked, it is the last call of the run, and the           *)
(* transcript holding its result was never sent to chat.                   *)
(***************************************************************************)
C20_TooDeepOnlyAt15 ==
    (entry = "main" /\ ret.err = "too in-depth conversation") =>
        /\ Len(stack) = 7
        /\ Len(Top.messages) = 15
        /\ Len(Sent) = 6
        /\ Len(CallsOf({"invokeFunction"})) = 6
        /\ \A i \in 1..6 : IsCall(stack[i].resp) /\ stack[i].invoke.err = Nil
        /\ Len(Sent[6].messages) = 13
        /\ Len(SinceLastChat(calls)) \in {1, 2}
        /\ SinceLastChat(calls)[1] =
              [fn |-> "invokeFunction",
               name |-> Requested(stack[6].resp).Name,
               argsIn |-> Requested(stack[6].resp).Arguments]
        /\ Top.messages[15].Role = "function"
        /\ Top.messages[15].Name = Requested(stack[6].resp).Name
        /\ \A k \in 1..Len(Sent) :
              /\ Sent[k].messages # Top.messages
              /\ Len(Sent[k].messages) <= 13

\* the too-deep error was returned after weather was called for the request
\* made at 13 messages
C20_Witness ==
    /\ entry = "main"
    /\ pc = "return"
    /\ ret.err = "too in-depth conversation"
    /\ Len(Top.messages) = 15
    /\ calls[Len(calls)].fn = "weather"
    /\ Top.messages[15].Content # ""

====
